---- MODULE Spec2Model ----
(***************************************************************************)
(* Response registry of the bot: gating of canned responses by rule set,   *)
(* cooldown and hit rate (bot-lib/src/config.rs), the shared configuration *)
(* behind a reader/writer lock with live reload (bot-lib/src/data.rs), and *)
(* the older per-detector dispatcher (src/text_detection.rs).              *)
(*                                                                         *)
(* Time is in whole seconds.  Hit rates and random draws are in tenths:    *)
(* hit rate 10 is 1.0, and a draw r in 0..9 is the value r/10 of [0,1).    *)
(* Strings are sequences of one-character strings.                         *)
(***************************************************************************)
EXTENDS Integers, Sequences, FiniteSets, TLC

\* Bound of the model: the clock runs from 0 to MaxTime.
MaxTime == 3

\* DateTime::<Utc>::MIN_UTC, far before every time of the clock.
MIN_UTC == -1000

Handlers == {"h1", "h2"}

\* Option<T>
None == <<>>
Some(x) == <<x>>
UnwrapOr(o, d) == IF o = None THEN d ELSE o[1]

\* Random draws of rand::random::<f64>(), in tenths: 0.0, 0.5 and 0.9.
Draws == {0, 5, 9}

\* str::contains: the pattern occurs as a contiguous substring; the empty
\* pattern occurs in every string.
Contains(s, t) ==
    \E i \in 0..(Len(s) - Len(t)) : SubSeq(s, i + 1, i + Len(t)) = t

\* Ruleset::matches: every Require pattern is found, no Forbid pattern is.
Matches(ruleset, input) ==
    \A k \in 1..Len(ruleset) :
        Contains(input, ruleset[k].pattern) = ~ruleset[k].forbid

Messages == { <<"r">>, <<"r", "k">>, <<"r", "p">>, <<"x">> }

Require(p) == [forbid |-> FALSE, pattern |-> p]
Forbid(p) == [forbid |-> TRUE, pattern |-> p]

\* The two response definitions of the configuration files considered.
FirstResponse(unskippable) ==
    [name |-> "first", hit_rate |-> None, ruleset |-> <<Require(<<"r">>)>>,
     message_response |-> [kind |-> "Text", content |-> "one"],
     cooldown |-> None, unskippable |-> unskippable]

SecondResponse ==
    [name |-> "second", hit_rate |-> Some(10),
     ruleset |-> <<Require(<<"r">>), Forbid(<<"p">>)>>,
     message_response |-> [kind |-> "RandomText", content |-> "many"],
     cooldown |-> Some(1), unskippable |-> FALSE]

ConfigPath == "config.toml"

\* The configurations a configuration file can hold.
ConfigSpace ==
    { [default_text_detect_cooldown |-> 2,
       default_hit_rate |-> hr,
       skip_hit_rate_text |-> sh,
       skip_duration_text |-> sd,
       responses |-> <<FirstResponse(u), SecondResponse>>,
       config_path |-> ConfigPath] :
        hr \in {0, 10}, sh \in {<<>>, <<"p">>}, sd \in {<<>>, <<"k">>},
        u \in BOOLEAN }

VARIABLES
    config,          \* AppState::config, the value behind the RwLock
    last_triggered,  \* RegisteredResponse::last_triggered of each response
    mutex,           \* holder of each response's last_triggered Mutex
    readers,         \* handlers holding the RwLock for reading
    now,             \* the clock read by Utc::now()
    pc,              \* position of each message handler
    msg,             \* the message a handler evaluates
    idx,             \* the response find_map is at
    verdict,         \* outcome of find_valid_response per response
    draw,            \* the last random draw a handler took
    tnow,            \* Utc::now() read at the cooldown check
    elapsed,         \* time_since_last_triggered
    result,          \* value returned by find_response
    wpc,             \* position of the watcher callback
    loaded,          \* result of Config::create_from_file in a reload
    event,           \* kind of the last event delivered to the watcher
    selTime,         \* per response: check time of its last selection
    last_response,   \* text_detection: Data::last_response of each detector
    td_cooldown,     \* text_detection: the value behind config.lock_cooldown()
    td_out,          \* text_detection: the last call and what it did
    file,            \* content of the configuration file at config_path
    saved            \* what the last Config::save got and returned

vars == <<config, last_triggered, mutex, readers, now, pc, msg, idx, verdict,
          draw, tnow, elapsed, result, wpc, loaded, event, selTime,
          last_response, td_cooldown, td_out, file, saved>>

hvars == <<pc, msg, idx, verdict, draw, tnow, elapsed, result>>
wvars == <<wpc, loaded, event>>
lvars == <<last_response, td_cooldown, td_out>>
cvars == <<file, saved>>

NoOwner == "free"
NumResponses == Len(config.responses)
Untried == [i \in 1..2 |-> "untried"]

\* default_time() for every response of a freshly built configuration
FreshTimes(cfg) == [i \in 1..Len(cfg.responses) |-> MIN_UTC]
FreshMutexes(cfg) == [i \in 1..Len(cfg.responses) |-> NoOwner]
FreshSel(cfg) == [i \in 1..Len(cfg.responses) |-> None]

\* get_default_text_detect_cooldown(): 45 seconds
DefaultTextDetectCooldown == 45

\* Config::default()
DefaultConfig ==
    [default_text_detect_cooldown |-> DefaultTextDetectCooldown,
     default_hit_rate |-> 10,
     skip_hit_rate_text |-> <<>>,
     skip_duration_text |-> <<>>,
     responses |-> <<>>,
     config_path |-> ""]

\* The registry and its handlers after AppState::new(cfg, path)
InitWith(cfg) ==
    /\ config = cfg
    /\ last_triggered = FreshTimes(cfg)
    /\ mutex = FreshMutexes(cfg)
    /\ readers = {}
    /\ now = 0
    /\ pc = [h \in Handlers |-> "idle"]
    /\ msg = [h \in Handlers |-> <<>>]
    /\ idx = [h \in Handlers |-> 0]
    /\ verdict = [h \in Handlers |-> Untried]
    /\ draw = [h \in Handlers |-> None]
    /\ tnow = [h \in Handlers |-> 0]
    /\ elapsed = [h \in Handlers |-> 0]
    /\ result = [h \in Handlers |-> None]
    /\ wpc = "idle"
    /\ loaded = None
    /\ event = "none"
    /\ selTime = FreshSel(cfg)

\* register_detectors: the detectors in registration order, name and pattern
Detectors ==
    << [name |-> "rust", pattern |-> <<"rust">>],
       [name |-> "tkinter", pattern |-> <<"tkinter">>],
       [name |-> "arch", pattern |-> <<"arch">>],
       [name |-> "goop", pattern |-> <<"goop">>],
       [name |-> "1984", pattern |-> <<"1984">>] >>

DetectorNames == { Detectors[k].name : k \in 1..Len(Detectors) }

NoCall == [called |-> FALSE]

\* The dispatcher of text_detection.rs before its first message
LegacyFresh(cooldown) ==
    /\ last_response = [d \in DetectorNames |-> MIN_UTC]
    /\ td_cooldown = cooldown
    /\ td_out = NoCall

\* A file that cannot be read, or whose text is not a TOML document
Garbage == [toml |-> FALSE]

\* No save has been called; the content of the file is not looked at
NoStore ==
    /\ file = Garbage
    /\ saved = None

Init ==
    /\ \E cfg \in ConfigSpace : InitWith(cfg)
    /\ LegacyFresh(2)
    /\ NoStore

----------------------------------------------------------------------------
\* RegisteredResponse::find_valid_response, the gates

EffCooldown(resp, cfg) == UnwrapOr(resp.cooldown, cfg.default_text_detect_cooldown)
EffHitRate(resp, cfg) == UnwrapOr(resp.hit_rate, cfg.default_hit_rate)

AllowedAtCooldown(time_since_last_triggered, cooldown) ==
    time_since_last_triggered >= cooldown

Allowed(time_since_last_triggered, cooldown) ==
    time_since_last_triggered > cooldown

CooldownBlockedByHitToken(input, cfg) ==
    ~Contains(input, cfg.skip_hit_rate_text)

CooldownBlocked(input, cfg) == ~Contains(input, cfg.skip_duration_text)

MissBelow(r, hit_rate) == r < hit_rate

Miss(r, hit_rate) == r > hit_rate

HitBlockedIgnoringUnskippable(resp, input, cfg) ==
    ~Contains(input, cfg.skip_hit_rate_text)

HitBlocked(resp, input, cfg) ==
    resp.unskippable \/ ~Contains(input, cfg.skip_hit_rate_text)

WriteBeforeHitCheck(times, i, t, rejected) == [times EXCEPT ![i] = t]

\* `*last_triggered = Utc::now()` comes after the return of a miss
WriteLastTriggered(times, i, t, rejected) ==
    IF rejected THEN times ELSE [times EXCEPT ![i] = t]

EarlyReturnNever(matches) == FALSE

\* if !self.ruleset.matches(input) { return None; }
EarlyReturn(matches) == ~matches

CanLockUnguarded(i) == TRUE

CanLockGlobal(i) == \A k \in DOMAIN mutex : mutex[k] = NoOwner

\* Mutex::lock succeeds when nobody holds the mutex
CanLock(i) == mutex[i] = NoOwner

FindMapContinues(found) == FALSE

\* Iterator::find_map stops at the first Some
FindMapStops(found) == found

CanReadAlways == TRUE

\* tokio RwLock::read: granted unless a writer holds or is queued for the lock
CanRead == wpc = "idle"

CanWriteAlways == TRUE

\* tokio RwLock::blocking_write: granted when no read guard is out
CanWrite == readers = {}

UnlockLeaks(m, i) == m

\* the MutexGuard of last_triggered is dropped when find_valid_response returns
Unlock(m, i) == [m EXCEPT ![i] = NoOwner]

----------------------------------------------------------------------------
\* AppState::find_response

Start(h, m) ==
    /\ pc[h] = "idle"
    /\ CanRead
    /\ readers' = readers \cup {h}
    /\ msg' = [msg EXCEPT ![h] = m]
    /\ idx' = [idx EXCEPT ![h] = 1]
    /\ pc' = [pc EXCEPT ![h] = "match"]
    /\ UNCHANGED <<config, last_triggered, mutex, now, verdict, draw, tnow,
                   elapsed, result, wvars, selTime>>
    /\ UNCHANGED <<lvars, cvars>>

FindResponseEnd(h) ==
    /\ pc[h] = "match"
    /\ idx[h] > NumResponses
    /\ pc' = [pc EXCEPT ![h] = "done"]
    /\ UNCHANGED <<config, last_triggered, mutex, readers, now, msg, idx,
                   verdict, draw, tnow, elapsed, result, wvars, selTime>>
    /\ UNCHANGED <<lvars, cvars>>

RulesetMismatch(h) ==
    /\ pc[h] = "match"
    /\ idx[h] <= NumResponses
    /\ EarlyReturn(Matches(config.responses[idx[h]].ruleset, msg[h]))
    /\ verdict' = [verdict EXCEPT ![h][idx[h]] = "nomatch"]
    /\ idx' = [idx EXCEPT ![h] = @ + 1]
    /\ UNCHANGED <<config, last_triggered, mutex, readers, now, pc, msg, draw,
                   tnow, elapsed, result, wvars, selTime>>
    /\ UNCHANGED <<lvars, cvars>>

RulesetMatch(h) ==
    /\ pc[h] = "match"
    /\ idx[h] <= NumResponses
    /\ ~EarlyReturn(Matches(config.responses[idx[h]].ruleset, msg[h]))
    /\ pc' = [pc EXCEPT ![h] = "lock"]
    /\ UNCHANGED <<config, last_triggered, mutex, readers, now, msg, idx,
                   verdict, draw, tnow, elapsed, result, wvars, selTime>>
    /\ UNCHANGED <<lvars, cvars>>

LockLastTriggered(h) ==
    /\ pc[h] = "lock"
    /\ CanLock(idx[h])
    /\ mutex' = [mutex EXCEPT ![idx[h]] = h]
    /\ pc' = [pc EXCEPT ![h] = "cooldown"]
    /\ UNCHANGED <<config, last_triggered, readers, now, msg, idx, verdict,
                   draw, tnow, elapsed, result, wvars, selTime>>
    /\ UNCHANGED <<lvars, cvars>>

CooldownCheck(h) ==
    /\ pc[h] = "cooldown"
    /\ LET i == idx[h]
           resp == config.responses[i]
           cooldown == EffCooldown(resp, config)
           time_since == now - last_triggered[i]
       IN IF ~Allowed(time_since, cooldown) /\ CooldownBlocked(msg[h], config)
          THEN /\ verdict' = [verdict EXCEPT ![h][i] = "cooldown"]
               /\ mutex' = Unlock(mutex, i)
               /\ idx' = [idx EXCEPT ![h] = i + 1]
               /\ pc' = [pc EXCEPT ![h] = "match"]
               /\ UNCHANGED <<tnow, elapsed>>
          ELSE /\ tnow' = [tnow EXCEPT ![h] = now]
               /\ elapsed' = [elapsed EXCEPT ![h] = time_since]
               /\ pc' = [pc EXCEPT ![h] = "hit"]
               /\ UNCHANGED <<verdict, mutex, idx>>
    /\ UNCHANGED <<config, last_triggered, readers, now, msg, draw, result,
                   wvars, selTime>>
    /\ UNCHANGED <<lvars, cvars>>

HitCheck(h, r) ==
    /\ pc[h] = "hit"
    /\ LET i == idx[h]
           resp == config.responses[i]
           hit_rate == EffHitRate(resp, config)
           rejected == Miss(r, hit_rate) /\ HitBlocked(resp, msg[h], config)
       IN /\ draw' = [draw EXCEPT ![h] = Some(r)]
          /\ mutex' = Unlock(mutex, i)
          /\ tnow' = [tnow EXCEPT ![h] = 0]
          /\ last_triggered' = WriteLastTriggered(last_triggered, i, now, rejected)
          /\ IF rejected
             THEN /\ verdict' = [verdict EXCEPT ![h][i] = "miss"]
                  /\ elapsed' = [elapsed EXCEPT ![h] = 0]
                  /\ idx' = [idx EXCEPT ![h] = i + 1]
                  /\ pc' = [pc EXCEPT ![h] = "match"]
                  /\ UNCHANGED <<result, selTime>>
             ELSE /\ verdict' = [verdict EXCEPT ![h][i] = "hit"]
                  /\ selTime' = [selTime EXCEPT ![i] = Some(tnow[h])]
                  /\ result' = [result EXCEPT ![h] = Some(resp.message_response)]
                  /\ UNCHANGED elapsed
                  /\ IF FindMapStops(TRUE)
                     THEN /\ pc' = [pc EXCEPT ![h] = "done"]
                          /\ UNCHANGED idx
                     ELSE /\ pc' = [pc EXCEPT ![h] = "match"]
                          /\ idx' = [idx EXCEPT ![h] = i + 1]
    /\ UNCHANGED <<config, readers, now, msg, wvars>>
    /\ UNCHANGED <<lvars, cvars>>

\* find_response returns: the read guard and the locals are dropped
Finish(h) ==
    /\ pc[h] = "done"
    /\ readers' = readers \ {h}
    /\ pc' = [pc EXCEPT ![h] = "idle"]
    /\ msg' = [msg EXCEPT ![h] = <<>>]
    /\ idx' = [idx EXCEPT ![h] = 0]
    /\ verdict' = [verdict EXCEPT ![h] = Untried]
    /\ draw' = [draw EXCEPT ![h] = None]
    /\ tnow' = [tnow EXCEPT ![h] = 0]
    /\ elapsed' = [elapsed EXCEPT ![h] = 0]
    /\ result' = [result EXCEPT ![h] = None]
    /\ UNCHANGED <<config, last_triggered, mutex, now, wvars, selTime>>
    /\ UNCHANGED <<lvars, cvars>>

Tick ==
    /\ now < MaxTime
    /\ now' = now + 1
    /\ UNCHANGED <<config, last_triggered, mutex, readers, hvars, wvars, selTime>>
    /\ UNCHANGED <<lvars, cvars>>

----------------------------------------------------------------------------
\* The watcher callback of AppState::new and Config::reload

EventKinds == {"close_write", "modify", "error"}

\* Result<Config>
Err == [ok |-> FALSE]
Ok(cfg) == [ok |-> TRUE, config |-> cfg]

\* Config::create_from_file: the file is unreadable or unparsable, or holds
\* a configuration; the path given is stored in the result.
CreateFromFile(config_path, contents) ==
    {Err} \cup { Ok([c EXCEPT !.config_path = config_path]) : c \in contents }

ReloadOrDefault(self, res) == IF res.ok THEN res.config ELSE DefaultConfig

\* Config::reload: *self = config only when the load succeeded
Reload(self, res) == IF res.ok THEN res.config ELSE self

ReloadTimesKept(times, res) == times

\* last_triggered is rebuilt by default_time() with the new responses
ReloadTimes(times, res) == IF res.ok THEN FreshTimes(res.config) ELSE times

Notify(kind) ==
    /\ wpc = "idle"
    /\ event' = kind
    /\ wpc' = IF kind = "close_write" THEN "waiting" ELSE "idle"
    /\ UNCHANGED <<config, last_triggered, mutex, readers, now, hvars, loaded,
                   selTime>>
    /\ UNCHANGED <<lvars, cvars>>

BlockingWrite ==
    /\ wpc = "waiting"
    /\ CanWrite
    /\ wpc' = "holding"
    /\ UNCHANGED <<config, last_triggered, mutex, readers, now, hvars, loaded,
                   event, selTime>>
    /\ UNCHANGED <<lvars, cvars>>

ReloadLoad(res) ==
    /\ wpc = "holding"
    /\ loaded' = Some(res)
    /\ wpc' = "loaded"
    /\ UNCHANGED <<config, last_triggered, mutex, readers, now, hvars, event,
                   selTime>>
    /\ UNCHANGED <<lvars, cvars>>

ReloadAssign ==
    /\ wpc = "loaded"
    /\ config' = Reload(config, loaded[1])
    /\ last_triggered' = ReloadTimes(last_triggered, loaded[1])
    /\ selTime' = IF loaded[1].ok THEN FreshSel(loaded[1].config) ELSE selTime
    /\ mutex' = IF loaded[1].ok THEN FreshMutexes(loaded[1].config) ELSE mutex
    /\ loaded' = None
    /\ wpc' = "idle"
    /\ UNCHANGED <<readers, now, hvars, event>>
    /\ UNCHANGED <<lvars, cvars>>

----------------------------------------------------------------------------
\* text_detection.rs: the dispatcher with one cooldown for all detectors

\* Data::check_should_respond: the name of the first registered detector
\* whose pattern is found in the message
CheckShouldRespond(m) ==
    LET hits == { k \in 1..Len(Detectors) : Contains(m, Detectors[k].pattern) }
    IN IF hits = {} THEN None
       ELSE Some(Detectors[CHOOSE k \in hits : \A j \in hits : k <= j].name)

CooldownNeverRunning(last_message, cooldown, timestamp) == FALSE

\* cooldown_checker: the test `*last_message + *cooldown > timestamp`
CooldownRunning(last_message, cooldown, timestamp) ==
    last_message + cooldown > timestamp

\* cooldown_checker: its result and the new last_message
CooldownChecker(last_message, cooldown, timestamp) ==
    IF CooldownRunning(last_message, cooldown, timestamp)
    THEN [met |-> FALSE, last_message |-> last_message]
    ELSE [met |-> TRUE, last_message |-> timestamp]

\* Words of the messages the dispatcher sees; a message is a word sequence.
LegacyMessages ==
    { <<"rust">>, <<"arch">>, <<"tkinter">>, <<"rust", "arch">>, <<"hello">> }

\* text_detection for a message with the given timestamp
TextDetection(m, timestamp) ==
    /\ LET name == CheckShouldRespond(m)
       IN IF name = None
          THEN /\ td_out' = [called |-> TRUE, msg |-> m, timestamp |-> timestamp,
                             name |-> None, acted |-> FALSE]
               /\ UNCHANGED last_response
          ELSE LET c == CooldownChecker(last_response[name[1]], td_cooldown,
                                        timestamp)
               IN /\ last_response' =
                        [last_response EXCEPT ![name[1]] = c.last_message]
                  /\ td_out' = [called |-> TRUE, msg |-> m,
                                timestamp |-> timestamp, name |-> name,
                                acted |-> c.met]
    /\ UNCHANGED <<config, last_triggered, mutex, readers, now, hvars, wvars,
                   selTime, td_cooldown, cvars>>

LegacyCooldowns == {1, 2}

LegacyInit ==
    /\ InitWith(DefaultConfig)
    /\ \E c \in LegacyCooldowns : LegacyFresh(c)
    /\ NoStore

LegacyNext ==
    \/ \E m \in LegacyMessages, timestamp \in 0..now : TextDetection(m, timestamp)
    \/ Tick

LegacySpec == LegacyInit /\ [][LegacyNext]_vars

----------------------------------------------------------------------------
\* The configuration file: toml::from_str and toml::to_string for Config.
\* A document is given by the keys present in it; a key that is absent is
\* None.  A string value is Str(v), an array of strings is List(v).

Str(v) == [t |-> "str", v |-> v]
List(v) == [t |-> "list", v |-> v]

\* ResponseKind
KindNone == [kind |-> "None"]
Text(content) == [kind |-> "Text", content |-> content]
RandomText(content) == [kind |-> "RandomText", content |-> content]
Image(path) == [kind |-> "Image", path |-> path]
TextAndImage(content, path) ==
    [kind |-> "TextAndImage", content |-> content, path |-> path]

\* The variants of ResponseKind in the order they are declared
VariantOrder == <<"None", "Text", "RandomText", "Image", "TextAndImage">>

\* One variant of the untagged enum tried on the flattened keys of a
\* response: a struct variant matches when each of its fields is present
\* with its type, other keys are ignored; the unit variant matches a unit
\* value only, never a table of keys.
TryVariant(variant, content, path) ==
    CASE variant = "None" -> None
      [] variant = "Text" ->
            IF content # None /\ content[1].t = "str"
            THEN Some(Text(content[1].v)) ELSE None
      [] variant = "RandomText" ->
            IF content # None /\ content[1].t = "list"
            THEN Some(RandomText(content[1].v)) ELSE None
      [] variant = "Image" ->
            IF path # None THEN Some(Image(path[1])) ELSE None
      [] variant = "TextAndImage" ->
            IF content # None /\ content[1].t = "str" /\ path # None
            THEN Some(TextAndImage(content[1].v, path[1])) ELSE None

\* #[serde(untagged)]: the first variant, in declaration order, that matches
DecodeKind(content, path) ==
    LET ok == { k \in 1..Len(VariantOrder) :
                    TryVariant(VariantOrder[k], content, path) # None }
    IN IF ok = {} THEN None
       ELSE TryVariant(VariantOrder[CHOOSE k \in ok : \A j \in ok : k <= j],
                       content, path)

\* Serialize for ResponseKind, flattened: the keys a variant writes
EncodeKind(kind) ==
    CASE kind.kind = "None" -> [content |-> None, path |-> None]
      [] kind.kind = "Text" -> [content |-> Some(Str(kind.content)), path |-> None]
      [] kind.kind = "RandomText" ->
            [content |-> Some(List(kind.content)), path |-> None]
      [] kind.kind = "Image" -> [content |-> None, path |-> Some(kind.path)]
      [] kind.kind = "TextAndImage" ->
            [content |-> Some(Str(kind.content)), path |-> Some(kind.path)]

\* #[serde(default)] of unskippable
ParseUnskippable(rd) == UnwrapOr(rd.unskippable, FALSE)

\* Deserialize for RegisteredResponse
ParseResponse(rd) ==
    LET kind == DecodeKind(rd.content, rd.path)
    IN IF kind = None THEN None
       ELSE Some([name |-> rd.name, hit_rate |-> rd.hit_rate,
                  ruleset |-> rd.ruleset, message_response |-> kind[1],
                  cooldown |-> rd.cooldown,
                  unskippable |-> ParseUnskippable(rd)])

ParseCooldownZero(doc) == UnwrapOr(doc.default_text_detect_cooldown, 0)

\* #[serde(default = "get_default_text_detect_cooldown")]
ParseCooldown(doc) ==
    UnwrapOr(doc.default_text_detect_cooldown, DefaultTextDetectCooldown)

\* Config::create_from_file on a file with the given content
ParseFile(config_path, doc) ==
    IF ~doc.toml THEN Err
    ELSE IF doc.default_hit_rate = None THEN Err
    ELSE IF \E i \in 1..Len(doc.responses) : ParseResponse(doc.responses[i]) = None
    THEN Err
    ELSE Ok([default_text_detect_cooldown |-> ParseCooldown(doc),
             default_hit_rate |-> doc.default_hit_rate[1],
             skip_hit_rate_text |-> doc.skip_hit_rate_text,
             skip_duration_text |-> doc.skip_duration_text,
             responses |-> [i \in 1..Len(doc.responses) |->
                                ParseResponse(doc.responses[i])[1]],
             config_path |-> config_path])

\* The result of the load together with the document it was made from
LoadFile(config_path, doc) ==
    ParseFile(config_path, doc) @@ [doc |-> doc]

\* Serialize for RegisteredResponse: last_triggered is skipped, an Option
\* that is None writes no key
SerializeResponse(resp) ==
    [name |-> resp.name, ruleset |-> resp.ruleset, hit_rate |-> resp.hit_rate,
     cooldown |-> resp.cooldown, unskippable |-> Some(resp.unskippable),
     content |-> EncodeKind(resp.message_response).content,
     path |-> EncodeKind(resp.message_response).path]

\* toml::to_string(&self) in Config::save: config_path is skipped
Serialize(cfg) ==
    [toml |-> TRUE,
     default_text_detect_cooldown |-> Some(cfg.default_text_detect_cooldown),
     default_hit_rate |-> Some(cfg.default_hit_rate),
     skip_hit_rate_text |-> cfg.skip_hit_rate_text,
     skip_duration_text |-> cfg.skip_duration_text,
     responses |-> [i \in 1..Len(cfg.responses) |->
                        SerializeResponse(cfg.responses[i])]]

SaveResultIgnoringWrite(ser_ok, write_ok) == IF ser_ok THEN "ok" ELSE "err"

\* Config::save: Err when serializing or writing failed
SaveResult(ser_ok, write_ok) == IF ser_ok /\ write_ok THEN "ok" ELSE "err"

\* std::fs::write: the file after the call; a write that fails leaves the
\* old content or a truncated file
FileAfterSave(cfg, old, ser_ok, write_ok) ==
    IF ~ser_ok THEN {old}
    ELSE IF write_ok THEN {Serialize(cfg)}
    ELSE {old, Garbage}

Save(ser_ok, write_ok) ==
    /\ wpc = "idle"
    /\ saved' = Some([ser_ok |-> ser_ok, write_ok |-> write_ok,
                      result |-> SaveResult(ser_ok, write_ok)])
    /\ file' \in FileAfterSave(config, file, ser_ok, write_ok)
    /\ UNCHANGED <<config, last_triggered, mutex, readers, now, hvars, wvars,
                   selTime, lvars>>

\* The file is edited from outside
EditFile(doc) ==
    /\ file' = doc
    /\ UNCHANGED <<config, last_triggered, mutex, readers, now, hvars, wvars,
                   selTime, lvars, saved>>

\* The response definitions and documents considered
ResponseDoc(ruleset, content, path, hit_rate, cooldown, unskippable) ==
    [name |-> "first", ruleset |-> ruleset, hit_rate |-> hit_rate,
     cooldown |-> cooldown, unskippable |-> unskippable,
     content |-> content, path |-> path]

ResponseDocs ==
    { ResponseDoc(<<Require(<<"r">>)>>, c, p, None, None, None) :
        c \in {None, Some(Str("one")), Some(List("many"))},
        p \in {None, Some("a.png")} }
    \cup { ResponseDoc(<<Require(<<"r">>)>>, Some(Str("one")), None,
                       Some(0), Some(1), Some(TRUE)),
           ResponseDoc(<<>>, Some(Str("one")), None, None, None, None),
           ResponseDoc(<<Require(<<"r">>), Forbid(<<"k">>)>>, Some(Str("one")),
                       None, None, None, None) }

ConfigDoc(default_text_detect_cooldown, default_hit_rate, rd) ==
    [toml |-> TRUE,
     default_text_detect_cooldown |-> default_text_detect_cooldown,
     default_hit_rate |-> default_hit_rate, skip_hit_rate_text |-> <<"p">>,
     skip_duration_text |-> <<"k">>, responses |-> <<rd>>]

PlainResponseDoc ==
    ResponseDoc(<<Require(<<"r">>)>>, Some(Str("one")), None, None, None, None)

FileSpace ==
    {Garbage}
    \cup { ConfigDoc(None, Some(5), rd) : rd \in ResponseDocs }
    \cup { ConfigDoc(Some(2), Some(15), PlainResponseDoc),
           ConfigDoc(Some(2), None, PlainResponseDoc) }

\* The configurations AppState::new is given: one response of each kind
StoreConfigs ==
    { [default_text_detect_cooldown |-> 2, default_hit_rate |-> 10,
       skip_hit_rate_text |-> <<"p">>, skip_duration_text |-> <<"k">>,
       responses |-> << [name |-> "first", hit_rate |-> None,
                         ruleset |-> <<Require(<<"r">>)>>,
                         message_response |-> kind, cooldown |-> None,
                         unskippable |-> FALSE] >>,
       config_path |-> ConfigPath] :
        kind \in { KindNone, Text("one"), RandomText("many"), Image("a.png"),
                   TextAndImage("one", "a.png") } }

StoreMessages == { <<"r">>, <<"r", "k">>, <<"x">> }

StoreInit ==
    /\ \E cfg \in StoreConfigs : InitWith(cfg)
    /\ LegacyFresh(2)
    /\ file = Garbage
    /\ saved = None

StoreNext ==
    \/ \E m \in StoreMessages : Start("h1", m)
    \/ FindResponseEnd("h1")
    \/ RulesetMismatch("h1")
    \/ RulesetMatch("h1")
    \/ LockLastTriggered("h1")
    \/ CooldownCheck("h1")
    \/ \E r \in Draws : HitCheck("h1", r)
    \/ Finish("h1")
    \/ \E doc \in FileSpace : EditFile(doc)
    \/ \E ser_ok, write_ok \in BOOLEAN : Save(ser_ok, write_ok)
    \/ \E kind \in EventKinds : Notify(kind)
    \/ BlockingWrite
    \/ ReloadLoad(LoadFile(config.config_path, file))
    \/ ReloadAssign

StoreSpec == StoreInit /\ [][StoreNext]_vars

----------------------------------------------------------------------------
\* One message handler at a time, every configuration file.
Next ==
    \/ \E m \in Messages : Start("h1", m)
    \/ FindResponseEnd("h1")
    \/ RulesetMismatch("h1")
    \/ RulesetMatch("h1")
    \/ LockLastTriggered("h1")
    \/ CooldownCheck("h1")
    \/ \E r \in Draws : HitCheck("h1", r)
    \/ Finish("h1")
    \/ Tick
    \/ \E kind \in EventKinds : Notify(kind)
    \/ BlockingWrite
    \/ \E res \in CreateFromFile(config.config_path, ConfigSpace) : ReloadLoad(res)
    \/ ReloadAssign

Spec == Init /\ [][Next]_vars

\* Concurrent message handlers, over fewer configurations and messages.
ConcConfigs ==
    { c \in ConfigSpace : /\ c.default_hit_rate = 10
                          /\ c.skip_hit_rate_text = <<"p">>
                          /\ c.skip_duration_text = <<"k">>
                          /\ ~c.responses[1].unskippable }

ConcMessages == { <<"r">>, <<"r", "k">>, <<"x">> }

ConcInit ==
    /\ \E cfg \in ConcConfigs : InitWith(cfg)
    /\ LegacyFresh(2)
    /\ NoStore

ConcNext ==
    \/ \E h \in Handlers, m \in ConcMessages : Start(h, m)
    \/ \E h \in Handlers : FindResponseEnd(h)
    \/ \E h \in Handlers : RulesetMismatch(h)
    \/ \E h \in Handlers : RulesetMatch(h)
    \/ \E h \in Handlers : LockLastTriggered(h)
    \/ \E h \in Handlers : CooldownCheck(h)
    \/ \E h \in Handlers, r \in Draws : HitCheck(h, r)
    \/ \E h \in Handlers : Finish(h)
    \/ Tick
    \/ \E kind \in EventKinds : Notify(kind)
    \/ BlockingWrite
    \/ \E res \in CreateFromFile(config.config_path, ConcConfigs) : ReloadLoad(res)
    \/ ReloadAssign

ConcSpec == ConcInit /\ [][ConcNext]_vars

\* Concurrent message handlers and the watcher under the scheduling of the
\* runtime; time stands still.
LiveNext ==
    \/ \E h \in Handlers, m \in ConcMessages : Start(h, m)
    \/ \E h \in Handlers : FindResponseEnd(h)
    \/ \E h \in Handlers : RulesetMismatch(h)
    \/ \E h \in Handlers : RulesetMatch(h)
    \/ \E h \in Handlers : LockLastTriggered(h)
    \/ \E h \in Handlers : CooldownCheck(h)
    \/ \E h \in Handlers, r \in Draws : HitCheck(h, r)
    \/ \E h \in Handlers : Finish(h)
    \/ \E kind \in EventKinds : Notify(kind)
    \/ BlockingWrite
    \/ \E res \in CreateFromFile(config.config_path, ConcConfigs) : ReloadLoad(res)
    \/ ReloadAssign

\* the steps of a handler that wait for nothing: find_response and
\* find_valid_response are synchronous code between lock acquisitions
Running(h) ==
    \/ FindResponseEnd(h)
    \/ RulesetMismatch(h)
    \/ RulesetMatch(h)
    \/ CooldownCheck(h)
    \/ \E r \in Draws : HitCheck(h, r)
    \/ Finish(h)

\* the steps of the watcher callback once it holds the write guard
Reloading ==
    \/ \E res \in CreateFromFile(config.config_path, ConcConfigs) : ReloadLoad(res)
    \/ ReloadAssign

\* A task that can run does run; parking_lot's Mutex is eventually fair, so
\* a handler that can take the lock again and again does take it; tokio's
\* RwLock hands the write guard to the waiting watcher once it is free.
LiveFairness ==
    /\ \A h \in Handlers : WF_vars(Running(h))
    /\ \A h \in Handlers : SF_vars(LockLastTriggered(h))
    /\ WF_vars(BlockingWrite)
    /\ WF_vars(Reloading)

LiveSpec == ConcInit /\ [][LiveNext]_vars /\ LiveFairness

\* One configuration generation: a message handler of the registry and the
\* dispatcher of text_detection.rs, whose messages carry timestamps in any
\* order.
StampedMessages == { <<"rust">>, <<"hello">> }

GenerationNext ==
    \/ \E m \in ConcMessages : Start("h1", m)
    \/ FindResponseEnd("h1")
    \/ RulesetMismatch("h1")
    \/ RulesetMatch("h1")
    \/ LockLastTriggered("h1")
    \/ CooldownCheck("h1")
    \/ \E r \in Draws : HitCheck("h1", r)
    \/ Finish("h1")
    \/ Tick
    \/ \E m \in StampedMessages, timestamp \in 0..now : TextDetection(m, timestamp)

GenerationSpec == ConcInit /\ [][GenerationNext]_vars

----------------------------------------------------------------------------
\* Properties

Resp(i) == config.responses[i]
Cooldown(i) == UnwrapOr(Resp(i).cooldown, config.default_text_detect_cooldown)
HitRate(i) == UnwrapOr(Resp(i).hit_rate, config.default_hit_rate)
HasDurationToken(h) == Contains(msg[h], config.skip_duration_text)
HasHitRateToken(h) == Contains(msg[h], config.skip_hit_rate_text)
Rejected == {"nomatch", "cooldown", "miss"}

\* C1: within one configuration generation, an evaluation that selects a
\* response for a message without the skip-cooldown token happens more than
\* the response's effective cooldown after the previous evaluation that
\* selected the same response.
C1_CooldownSpacing ==
    [][\A h \in Handlers :
         ( /\ pc[h] = "hit"
           /\ verdict'[h][idx[h]] = "hit"
           /\ ~HasDurationToken(h)
           /\ selTime[idx[h]] # None )
         => tnow[h] - selTime[idx[h]][1] > Cooldown(idx[h])]_vars

\* A message without the token is rejected by the cooldown of a response that
\* was selected earlier in this generation, less than a cooldown ago.
C1_Witness ==
    \E h \in Handlers, i \in 1..2 :
        /\ verdict[h][i] = "cooldown"
        /\ ~HasDurationToken(h)
        /\ selTime[i] # None
        /\ now - selTime[i][1] < Cooldown(i)

\* C2: with concurrent handlers, every selection of a response by a message
\* without the skip-cooldown token writes a last_triggered that is more than
\* the cooldown after the value it replaces: no handler passes the cooldown
\* check between another handler's check and its write.
C2_NoDoubleTrigger ==
    [][\A h \in Handlers :
         ( /\ pc[h] = "hit"
           /\ verdict'[h][idx[h]] = "hit"
           /\ ~HasDurationToken(h) )
         => last_triggered'[idx[h]] - last_triggered[idx[h]] > Cooldown(idx[h])]_vars

\* One handler is between check and write of a response while another one,
\* whose message matches the same response, waits for its lock.
C2_Witness ==
    \E h1, h2 \in Handlers :
        /\ h1 # h2
        /\ pc[h1] = "hit"
        /\ pc[h2] = "lock"
        /\ idx[h1] = idx[h2]
        /\ mutex[idx[h1]] = h1
        /\ ~HasDurationToken(h1)
        /\ ~HasDurationToken(h2)

\* C3: a reload whose load step failed changes neither the configuration
\* (defaults, response list, stored path) nor any response's last_triggered.
C3_FailedReloadKeepsConfig ==
    [][( /\ wpc = "loaded"
         /\ wpc' = "idle"
         /\ ~loaded[1].ok )
       => /\ config' = config
          /\ last_triggered' = last_triggered]_vars

\* The load of a reload has failed while a response has already triggered.
C3_Witness ==
    /\ wpc = "loaded"
    /\ ~loaded[1].ok
    /\ \E i \in 1..2 : last_triggered[i] # MIN_UTC

\* C4: when find_response selects response j, every earlier response was
\* rejected (no match, cooldown or miss), the content returned is that of j,
\* and no later response was examined or written.
C4_FirstMatchPriority ==
    \A h \in Handlers, j \in 1..2 :
        verdict[h][j] = "hit"
        => /\ \A i \in 1..(j - 1) : verdict[h][i] \in Rejected
           /\ pc[h] = "done"
           /\ result[h] = Some(Resp(j).message_response)
           /\ \A k \in (j + 1)..2 : verdict[h][k] = "untried"

\* The first response was selected for a message that the second response
\* matches too, with the second one off cooldown and at hit rate 1.0.
C4_Witness ==
    \E h \in Handlers :
        /\ pc[h] = "done"
        /\ verdict[h][1] = "hit"
        /\ Matches(Resp(2).ruleset, msg[h])
        /\ now - last_triggered[2] > Cooldown(2)
        /\ HitRate(2) = 10

C6_EmptyTokenNeverBypasses ==
    \A h \in Handlers, i \in 1..2 :
        (config.skip_duration_text = <<>> /\ verdict[h][i] = "hit")
        => elapsed[h] > Cooldown(i)

\* C7: at effective hit rate 1.0 a matching message that contains the
\* skip-cooldown token passes the cooldown check whatever the elapsed time,
\* is selected, and last_triggered becomes the current time.
C7_SkipCooldownBypass ==
    [][\A h \in Handlers :
         ( /\ pc[h] \in {"cooldown", "hit"}
           /\ pc'[h] # pc[h]
           /\ HasDurationToken(h)
           /\ HitRate(idx[h]) = 10 )
         => /\ pc[h] = "cooldown" => pc'[h] = "hit"
            /\ pc[h] = "hit" => /\ verdict'[h][idx[h]] = "hit"
                                /\ last_triggered'[idx[h]] = now]_vars

\* A message carrying a non-empty token was selected within the cooldown.
C7_Witness ==
    \E h \in Handlers, i \in 1..2 :
        /\ verdict[h][i] = "hit"
        /\ config.skip_duration_text # <<>>
        /\ HasDurationToken(h)
        /\ HitRate(i) = 10
        /\ elapsed[h] <= Cooldown(i)

\* C8: at effective hit rate 1.0 no draw is a miss: a response is never
\* rejected by the hit-rate gate.
C8_HitRateOneNeverMisses ==
    \A h \in Handlers, i \in 1..2 :
        HitRate(i) = 10 => verdict[h][i] # "miss"

\* The largest draw selected a response at hit rate 1.0, for a message that
\* does not carry the skip-hit-rate token.
C8_Witness ==
    \E h \in Handlers, i \in 1..2 :
        /\ verdict[h][i] = "hit"
        /\ HitRate(i) = 10
        /\ draw[h] = Some(9)
        /\ ~HasHitRateToken(h)

\* C9: at effective hit rate 0.0, with unskippable = false and a message
\* without the skip-hit-rate token, no response is selected, for every draw.
C9_HitRateZeroNeverHits ==
    \A h \in Handlers, i \in 1..2 :
        verdict[h][i] = "hit"
        => ~( /\ HitRate(i) = 0
              /\ ~Resp(i).unskippable
              /\ ~HasHitRateToken(h) )

\* C10: a miss (draw above the hit rate) rejects an unskippable response
\* even when the message contains the skip-hit-rate token; for a response
\* that is not unskippable the miss is overridden exactly when the message
\* contains the token.
C10_UnskippableGate ==
    [][\A h \in Handlers :
         ( /\ pc[h] = "hit"
           /\ pc'[h] # "hit"
           /\ draw'[h][1] > HitRate(idx[h]) )
         => /\ Resp(idx[h]).unskippable => verdict'[h][idx[h]] = "miss"
            /\ ~Resp(idx[h]).unskippable
                  => (verdict'[h][idx[h]] = "hit" <=> HasHitRateToken(h))]_vars

\* An unskippable response was rejected by a miss although the message
\* contains the non-empty skip-hit-rate token.
C10_Witness ==
    \E h \in Handlers, i \in 1..2 :
        /\ verdict[h][i] = "miss"
        /\ Resp(i).unskippable
        /\ config.skip_hit_rate_text # <<>>
        /\ HasHitRateToken(h)

\* C11: a step of find_valid_response that rejects a response (no match,
\* cooldown, or a miss that is not overridden) changes no last_triggered;
\* a step that selects a response changes the last_triggered of that
\* response only; no other step of a handler writes last_triggered.
C11_RejectionLeavesState ==
    [][\A h \in Handlers :
         pc'[h] # pc[h] \/ idx'[h] # idx[h]
         => IF pc[h] = "hit" /\ verdict'[h][idx[h]] = "hit"
            THEN \A k \in 1..2 : k # idx[h] => last_triggered'[k] = last_triggered[k]
            ELSE last_triggered' = last_triggered]_vars

\* An evaluation returned none after the first response, triggered before,
\* was rejected by a miss under its lock.
C11_Witness ==
    \E h \in Handlers :
        /\ pc[h] = "done"
        /\ result[h] = None
        /\ verdict[h][1] = "miss"
        /\ last_triggered[1] # MIN_UTC

\* the watcher holds the RwLock write guard
WriteHeld == wpc \in {"holding", "loaded"}

\* C12: whenever the watcher holds exclusive access to the configuration,
\* the file has already been read and parsed, so readers are kept out for
\* the replacement of the snapshot only and never during file I/O.
C12_LoadBeforeExclusive ==
    WriteHeld => loaded # None

\* the watcher's call of Config::create_from_file inside reload
LoadStep == wpc = "holding" /\ wpc' = "loaded"

\* C13: when a save has succeeded and the file holds what the save of the
\* current configuration writes, the next load from the same path succeeds
\* and yields a configuration equal to the current one in every persisted
\* field.
C13_SaveLoadRoundTrip ==
    [][(LoadStep /\ saved # None /\ saved[1].result = "ok"
          /\ file = Serialize(config))
       => (loaded'[1].ok /\ loaded'[1].config = config)]_vars

\* C14: every effective hit rate of the configuration in memory lies
\* within [0.0, 1.0] (0..10 in tenths), because a load with a hit rate
\* outside that range fails.
C14_HitRatesInRange ==
    /\ config.default_hit_rate \in 0..10
    /\ \A i \in 1..NumResponses : HitRate(i) \in 0..10

\* a call of Config::save
SaveStep == saved' # saved

\* C15: a save leaves the configuration in memory and every last_triggered
\* as they were; it returns an error when serializing or writing failed, and
\* when it returns success the file holds the serialized configuration.
C15_FailedSaveKeepsConfig ==
    [][SaveStep =>
         /\ config' = config
         /\ last_triggered' = last_triggered
         /\ (~saved'[1].ser_ok \/ ~saved'[1].write_ok => saved'[1].result = "err")
         /\ (saved'[1].result = "ok" => file' = Serialize(config))]_vars

C15_Witness ==
    /\ saved # None
    /\ saved[1].ser_ok /\ ~saved[1].write_ok /\ saved[1].result = "err"
    /\ file = Garbage
    /\ \E i \in 1..NumResponses : last_triggered[i] # MIN_UTC

\* the responses the evaluation of handler h has selected
Hits(h) == { j \in DOMAIN verdict[h] : verdict[h][j] = "hit" }

\* C16: one evaluation selects at most one response; what it returns is
\* nothing when it selected none and otherwise the content of the response
\* selected; and a handler step that writes a last_triggered writes the one
\* of the single response its evaluation selects and no other.
C16_OneDecision ==
    /\ [](\A h \in Handlers :
            /\ Cardinality(Hits(h)) <= 1
            /\ (result[h] = None <=> Hits(h) = {})
            /\ \A j \in Hits(h) : result[h] = Some(Resp(j).message_response))
    /\ [][wpc' = wpc =>
            \A k \in DOMAIN last_triggered :
                last_triggered'[k] # last_triggered[k]
                => /\ \E h \in Handlers :
                        /\ pc[h] = "hit" /\ idx[h] = k
                        /\ Hits(h) = {}
                        /\ verdict'[h] = [verdict[h] EXCEPT ![k] = "hit"]
                   /\ \A j \in DOMAIN last_triggered \ {k} :
                        last_triggered'[j] = last_triggered[j]]_vars

\* An evaluation of a message that both responses match has selected the
\* first one, written its last_triggered and left the second one alone.
C16_Witness ==
    \E h \in Handlers :
        /\ pc[h] = "done"
        /\ Hits(h) = {1}
        /\ \A j \in 1..2 : Matches(Resp(j).ruleset, msg[h])
        /\ result[h] = Some(Resp(1).message_response)
        /\ last_triggered[1] = now /\ now > 0
        /\ last_triggered[2] = MIN_UTC

\* every Require pattern of response i is found in the message of handler
\* h and no Forbid pattern of it is
Satisfies(h, i) ==
    /\ \A k \in 1..Len(Resp(i).ruleset) :
           ~Resp(i).ruleset[k].forbid
           => Contains(msg[h], Resp(i).ruleset[k].pattern)
    /\ \A k \in 1..Len(Resp(i).ruleset) :
           Resp(i).ruleset[k].forbid
           => ~Contains(msg[h], Resp(i).ruleset[k].pattern)

\* handler h has examined response i beyond the test of its rule set
PastRuleset(h, i) ==
    \/ verdict[h][i] \in {"cooldown", "miss", "hit"}
    \/ idx[h] = i /\ pc[h] \in {"lock", "cooldown", "hit"}

AssignStep == wpc = "loaded" /\ wpc' = "idle" /\ loaded[1].ok

\* C18: a file without the default cooldown loads with a default cooldown
\* of 45 seconds; a response written without hit rate, cooldown and
\* unskippable loads with no hit-rate override, no cooldown override,
\* unskippable false and last_triggered at the minimum timestamp; a response
\* without overrides is rejected for cooldown exactly when the time since
\* last_triggered is at most the global default cooldown (and the message has
\* no skip token), and for a miss exactly when the draw exceeds the global
\* default hit rate (and the miss cannot be skipped).
C18_DefaultsAtLoad ==
    [][/\ AssignStep
          => /\ loaded[1].doc.default_text_detect_cooldown = None
                => config'.default_text_detect_cooldown = 45
             /\ \A i \in 1..Len(loaded[1].doc.responses) :
                  LET rd == loaded[1].doc.responses[i]
                  IN (rd.hit_rate = None /\ rd.cooldown = None
                        /\ rd.unskippable = None)
                     => /\ config'.responses[i].hit_rate = None
                        /\ config'.responses[i].cooldown = None
                        /\ config'.responses[i].unskippable = FALSE
                        /\ last_triggered'[i] = MIN_UTC
       /\ \A h \in Handlers :
            (pc[h] = "cooldown" /\ pc'[h] # "cooldown"
               /\ Resp(idx[h]).cooldown = None)
            => (verdict'[h][idx[h]] = "cooldown"
                  <=> /\ now - last_triggered[idx[h]]
                           <= config.default_text_detect_cooldown
                      /\ ~HasDurationToken(h))
       /\ \A h \in Handlers :
            (pc[h] = "hit" /\ pc'[h] # "hit" /\ Resp(idx[h]).hit_rate = None)
            => (verdict'[h][idx[h]] = "miss"
                  <=> /\ draw'[h][1] > config.default_hit_rate
                      /\ Resp(idx[h]).unskippable \/ ~HasHitRateToken(h))]_vars

\* A file without default cooldown and without the response's optional keys
\* was loaded, the response was selected once and is now on the 45 second
\* default cooldown.
C18_Witness ==
    \E h \in Handlers :
        /\ file = ConfigDoc(None, Some(5), PlainResponseDoc)
        /\ config = ParseFile(ConfigPath, file).config
        /\ config.default_text_detect_cooldown = 45
        /\ Resp(1).hit_rate = None /\ Resp(1).cooldown = None
        /\ ~Resp(1).unskippable
        /\ last_triggered[1] = now
        /\ pc[h] = "done" /\ verdict[h][1] = "cooldown"

\* a call of text_detection for a message that a detector matches
DetectStep == td_out' # td_out /\ td_out'.called /\ td_out'.name # None

\* C19: cooldown_checker returns true and sets last_message to the message
\* timestamp when more than the cooldown has elapsed since last_message, and
\* otherwise (elapsed at most the cooldown, as in the registry) returns false
\* and leaves last_message as it was.
C19_CooldownCheckerBoundary ==
    [][DetectStep =>
         LET name == td_out'.name[1]
             elapsed_time == td_out'.timestamp - last_response[name]
         IN /\ td_out'.acted <=> elapsed_time > td_cooldown
            /\ td_out'.acted
               => last_response' =
                    [last_response EXCEPT ![name] = td_out'.timestamp]
            /\ ~td_out'.acted => last_response' = last_response]_vars

\* handler h is inside find_valid_response of the response idx[h], at or
\* after the lock of its last_triggered
Evaluating(h) == pc[h] \in {"lock", "cooldown", "hit"}

\* the next step of handler h inside find_valid_response
GatingStep(h) ==
    \/ LockLastTriggered(h)
    \/ CooldownCheck(h)
    \/ \E r \in Draws : HitCheck(h, r)

EventStep(kind) == wpc = "idle" /\ event' = kind /\ event # kind

\* C21: a close-after-write event is eventually followed by a load of the
\* file, whatever the handlers do meanwhile; an event of another kind or a
\* watcher error starts no reload and changes neither the configuration nor
\* any last_triggered; the watcher asks for the write guard only for a
\* close-after-write event.
C21_ReloadTrigger ==
    /\ (wpc = "waiting") ~> (wpc = "loaded")
    /\ [][/\ \A kind \in EventKinds \ {"close_write"} :
               EventStep(kind)
               => /\ wpc' = "idle"
                  /\ config' = config
                  /\ last_triggered' = last_triggered
          /\ (wpc = "idle" /\ wpc' # "idle") => event' = "close_write"]_vars

\* The watcher waits for the write guard while both handlers hold read
\* guards.
C21_Witness ==
    /\ wpc = "waiting"
    /\ event = "close_write"
    /\ readers = Handlers

\* C22: within one configuration generation every write of a response's
\* last_triggered, and every write of a detector's last_message by
\* cooldown_checker, stores a value that is at least the value it replaces,
\* also for messages with the skip-cooldown token and for messages whose
\* timestamps arrive out of order.
C22_MonotoneLastTriggered ==
    [][/\ \A i \in DOMAIN last_triggered :
            last_triggered'[i] >= last_triggered[i]
       /\ \A d \in DetectorNames :
            last_response'[d] >= last_response[d]]_vars

\* A message with the skip-cooldown token was selected while the response
\* was on cooldown, and a message stamped before the detector's last_message
\* was turned away.
C22_Witness ==
    /\ \E h \in Handlers :
         /\ pc[h] = "done" /\ verdict[h][1] = "hit"
         /\ HasDurationToken(h)
         /\ selTime[1] # None
         /\ elapsed[h] <= Cooldown(1)
         /\ last_triggered[1] = now
    /\ td_out.called /\ td_out.name # None /\ ~td_out.acted
    /\ td_out.timestamp < last_response[td_out.name[1]]

\* C23: the assignment of a successfully loaded configuration makes it the
\* configuration in memory, leaves every last_triggered at the minimum
\* timestamp and keeps the stored path; a response whose last_triggered is
\* the minimum timestamp is not rejected for cooldown.
C23_ReloadResetsLastTriggered ==
    [][/\ (wpc = "loaded" /\ wpc' = "idle" /\ loaded[1].ok)
          => /\ config' = loaded[1].config
             /\ DOMAIN last_triggered' = 1..Len(config'.responses)
             /\ \A i \in DOMAIN last_triggered' : last_triggered'[i] = MIN_UTC
             /\ config'.config_path = config.config_path
       /\ \A h \in Handlers :
            (pc[h] = "cooldown" /\ last_triggered[idx[h]] = MIN_UTC)
            => verdict'[h][idx[h]] # "cooldown"]_vars

\* A configuration was loaded whose first response has the name of one that
\* triggered in the generation about to be replaced, less than its cooldown
\* ago.
C23_Witness ==
    /\ wpc = "loaded"
    /\ loaded[1].ok
    /\ loaded[1].config.responses[1].name = Resp(1).name
    /\ last_triggered[1] # MIN_UTC
    /\ now - last_triggered[1] < Cooldown(1)

\* C24: a load of a file whose top-level keys are in order succeeds, and
\* every response of it decodes to the variant of its shape: string content
\* alone to text, list content to random text, path alone to image, string
\* content with path to text and image, neither to none.
C24_DecodeByShape ==
    [][(LoadStep /\ file.toml /\ file.default_hit_rate # None)
       => /\ loaded'[1].ok
          /\ \A i \in 1..Len(file.responses) :
               LET content == file.responses[i].content
                   path == file.responses[i].path
                   kind == loaded'[1].config.responses[i].message_response
               IN /\ (content = None /\ path = None) => kind = KindNone
                  /\ (content = None /\ path # None) => kind = Image(path[1])
                  /\ (content # None /\ content[1].t = "list")
                     => kind = RandomText(content[1].v)
                  /\ (content # None /\ content[1].t = "str" /\ path = None)
                     => kind = Text(content[1].v)
                  /\ (content # None /\ content[1].t = "str" /\ path # None)
                     => kind = TextAndImage(content[1].v, path[1])]_vars

\* C25: from the first candidate to the return of find_response the handler
\* holds a read guard, and while it does the configuration (defaults, tokens,
\* response list) does not change, no reload is assigned and the watcher does
\* not hold the write guard; the response whose last_triggered the handler
\* writes is one of that same configuration.
C25_SnapshotConsistency ==
    /\ [](\A h \in Handlers :
            pc[h] # "idle"
            => /\ h \in readers
               /\ ~WriteHeld
               /\ idx[h] \in 1..(NumResponses + 1)
               /\ DOMAIN last_triggered = 1..NumResponses)
    /\ [][\A h \in Handlers :
            pc[h] # "idle"
            => /\ config' = config
               /\ ~(wpc = "loaded" /\ wpc' = "idle")
               /\ \A i \in DOMAIN last_triggered :
                    last_triggered'[i] # last_triggered[i]
                    => verdict'[h][i] = "hit"]_vars

\* The watcher waits for the write guard while an evaluation is between its
\* cooldown check and its write of last_triggered.
C25_Witness ==
    \E h \in Handlers :
        /\ wpc = "waiting"
        /\ pc[h] = "hit"
        /\ mutex[idx[h]] = h
        /\ h \in readers

\* a step of a task that has begun: a handler inside find_response or the
\* watcher inside its callback
Progress ==
    \/ \E h \in Handlers : Running(h) \/ LockLastTriggered(h)
    \/ BlockingWrite
    \/ Reloading

\* C26: whenever a handler is inside find_response or the watcher inside its
\* callback, one of them can take a step; every evaluation that has started
\* reaches its return, with nothing or the content of a response, and then
\* gives back its read guard; a handler holds a last_triggered lock only
\* between taking it and the end of the gate checks of that response, so the
\* returns for cooldown and for a miss release it.
C26_DeadlockFreedom ==
    /\ []((wpc # "idle" \/ \E h \in Handlers : pc[h] # "idle")
          => ENABLED Progress)
    /\ [](\A h \in Handlers : \A i \in DOMAIN mutex :
            mutex[i] = h => idx[h] = i /\ pc[h] \in {"cooldown", "hit"})
    /\ [](\A h \in Handlers : pc[h] = "idle" => h \notin readers)
    /\ [](\A h \in Handlers :
            pc[h] = "done"
            => \/ result[h] = None
               \/ \E i \in 1..NumResponses :
                    result[h] = Some(Resp(i).message_response))
    /\ \A h \in Handlers : (pc[h] = "match") ~> (pc[h] = "done")
    /\ \A h \in Handlers : (pc[h] = "done") ~> (pc[h] = "idle")

\* One handler holds the lock of a response, the other one waits for the same
\* lock and the watcher waits for the write guard.
C26_Witness ==
    \E a, b \in Handlers :
        /\ a # b
        /\ mutex[1] = a /\ pc[a] \in {"cooldown", "hit"}
        /\ pc[b] = "lock" /\ idx[b] = 1
        /\ wpc = "waiting"

====
